---- MODULE Spec2Model ----
(***************************************************************************)
(* Model of the cluster network auto configurator                          *)
(* (cluster_network_auto_configurator_production.py).                      *)
(*                                                                         *)
(* An artifact (a cluster YAML file) is a sequence of lines.  A line is a  *)
(* record that keeps what the code looks at: how the line starts (column   *)
(* 0 or indented, dash, blank), which key it carries, and the value the    *)
(* YAML reader gets from it.  A list item written by yaml.dump ("- number: *)
(* 1" with its indented body) is one "rule" line carrying the item's       *)
(* content; further indented lines are "ind" lines.                        *)
(***************************************************************************)
EXTENDS Integers, Sequences, FiniteSets, TLC

\* ------------------------------------------------------------------ bounds
MaxVlan == 2
MaxLen == 3

\* ------------------------------------------------------------- constants
DEFAULT_PORTS == << <<"port", "80", "TCP">>, <<"port", "8080", "TCP">> >>
DEFAULT_PORT_RANGES == << <<"range", "30000-36000", "TCP">> >>

\* Segment strings the allocator hands out; "" is the empty string that
\* dict.get(KEY_SEGMENT, '') yields for a missing key, None is Python's None.
Segments == {"10.0.50.0/24", "10.1.100.0/24"}
None == "None"

VlanIds == 0..MaxVlan

\* ---------------------------------------------------------- python values
\* str(int): the decimal digits of n, as a sequence of digits.
RECURSIVE Digits(_)
Digits(n) == IF n < 10 THEN <<n>> ELSE Digits(n \div 10) \o <<n % 10>>

\* int(str): the number a digit string denotes.
RECURSIVE IntOf(_)
IntOf(s) ==
    IF Len(s) = 0 THEN 0
    ELSE 10 * IntOf(SubSeq(s, 1, Len(s) - 1)) + s[Len(s)]

\* A YAML scalar read as a Python value: an int or a str of digits.
\* typ = "none" is Python's None (dict.get on a missing key).
PyInt(n) == [typ |-> "int", num |-> n, str |-> <<>>]
PyString(s) == [typ |-> "str", num |-> 0, str |-> s]
PyNone == [typ |-> "none", num |-> 0, str |-> <<>>]

\* bool(v): None, 0 and '' are falsy.
Truthy(v) ==
    CASE v.typ = "int" -> v.num # 0
      [] v.typ = "str" -> v.str # <<>>
      [] OTHER -> FALSE

\* str(v)
PyStr(v) ==
    CASE v.typ = "int" -> Digits(v.num)
      [] v.typ = "str" -> v.str
      [] OTHER -> <<>>

\* ------------------------------------------------------------------ lines
\* kind: "vlan"   vlanId: <val>             (column 0)
\*       "nvlan"    vlanId: <val>           (indented, nested in a mapping)
\*       "net"    Networks:                 (column 0)
\*       "nnet"     Networks:               (indented)
\*       "rule"   - number: .. from: ..     (a list item, dash first)
\*       "ind"      a: b                    (indented line)
\*       "kv"     name: x                   (column 0 key with a scalar)
\*       "key"    other:                    (column 0 key opening a block)
\*       "auto"   AutomaticAllocation: false
\*       "cmt"    # comment                 (column 0)
\*       "blank"
\*       "part"   an incompletely written line (a write that failed midway)
MkLine(kind, val, num, from, fname, dest, legacy, dname, ports) ==
    [kind |-> kind, val |-> val, num |-> num, from |-> from, fname |-> fname,
     dest |-> dest, legacy |-> legacy, dname |-> dname, ports |-> ports]

Plain(kind) == MkLine(kind, PyNone, 0, "", "", "", "", "", <<>>)
VlanLine(v) == MkLine("vlan", v, 0, "", "", "", "", "", <<>>)
NestedVlanLine(v) == MkLine("nvlan", v, 0, "", "", "", "", "", <<>>)
\* A rule as found in an artifact: dest is the segment under the canonical
\* key, legacy the segment under the legacy key ("" when the key is absent).
RuleLine(from, dest, legacy) ==
    MkLine("rule", PyNone, 0, from, "", dest, legacy, "", <<>>)

\* line.startswith((' ', '-'))
StartsIndentOrDash(l) == l.kind \in {"nvlan", "nnet", "ind", "rule"}
\* line.strip() == ''
IsBlank(l) == l.kind = "blank"
\* line.strip().startswith('vlanId:')
StripStartsVlan(l) == l.kind \in {"vlan", "nvlan"}
\* line.strip().startswith('Networks:')
StripStartsNetworks(l) == l.kind \in {"net", "nnet"}
Indented(l) == l.kind \in {"nvlan", "nnet", "ind"}
TopKey(l) == l.kind \in {"vlan", "net", "kv", "key", "auto"}

\* ------------------------------------------------------------ yaml reader
\* yaml.safe_load on the artifact's lines.  ctx follows the block structure:
\*   "start"   nothing but blanks and comments so far
\*   "scalar"  after a column-0 key that has a scalar value
\*   "open"    after a column-0 key without a value
\*   "map"     inside the nested mapping of the open key
\*   "seq"     inside the list of the open key
\*   "topseq"  the document is a list (it began with a list item)
\*   "indtop"  the document began with an indented line
\* cur is the column-0 key the following lines belong to.  A key given
\* twice keeps its last value, as PyYAML's constructor does.
ParseInit ==
    [ok |-> TRUE, ctx |-> "start", cur |-> "none", vlan |-> PyNone,
     netKind |-> "absent", rules |-> <<>>, auto |-> "unset"]

ParseTopKey(st, l) ==
    IF st.ctx \in {"topseq", "indtop"} THEN [st EXCEPT !.ok = FALSE]
    ELSE CASE l.kind = "vlan" ->
                [st EXCEPT !.ctx = "scalar", !.cur = "vlan", !.vlan = l.val]
           [] l.kind = "auto" ->
                [st EXCEPT !.ctx = "scalar", !.cur = "auto", !.auto = "false"]
           [] l.kind = "kv" ->
                [st EXCEPT !.ctx = "scalar", !.cur = "other"]
           [] l.kind = "key" ->
                [st EXCEPT !.ctx = "open", !.cur = "other"]
           [] OTHER ->  \* "net": Networks: with no value yet is None
                [st EXCEPT !.ctx = "open", !.cur = "net",
                           !.netKind = "null", !.rules = <<>>]

ParseIndented(st) ==
    CASE st.ctx = "start" -> [st EXCEPT !.ctx = "indtop"]
      [] st.ctx = "scalar" -> [st EXCEPT !.ok = FALSE]
      [] st.ctx = "open" ->
            [st EXCEPT !.ctx = "map",
                       !.netKind = IF st.cur = "net" THEN "map" ELSE @]
      [] OTHER -> st  \* "map", "seq", "topseq", "indtop": one more nested line

ParseItem(st, l) ==
    CASE st.ctx = "start" -> [st EXCEPT !.ctx = "topseq"]
      [] st.ctx = "topseq" -> st
      [] st.ctx = "open" ->
            IF st.cur = "net"
            THEN [st EXCEPT !.ctx = "seq", !.netKind = "list", !.rules = <<l>>]
            ELSE [st EXCEPT !.ctx = "seq"]
      [] st.ctx = "seq" ->
            IF st.cur = "net"
            THEN [st EXCEPT !.rules = Append(@, l)]
            ELSE st
      [] OTHER -> [st EXCEPT !.ok = FALSE]  \* "scalar", "map", "indtop"

ParseStep(st, l) ==
    CASE ~st.ok -> st
      [] l.kind \in {"blank", "cmt"} -> st
      [] l.kind = "part" -> [st EXCEPT !.ok = FALSE]
      [] TopKey(l) -> ParseTopKey(st, l)
      [] Indented(l) -> ParseIndented(st)
      [] OTHER -> ParseItem(st, l)

RECURSIVE ParseFrom(_, _)
ParseFrom(st, lines) ==
    IF lines = <<>> THEN st
    ELSE ParseFrom(ParseStep(st, Head(lines)), Tail(lines))

\* The loaded document: ok = FALSE when safe_load raises; top says whether
\* the document is a mapping, a list or empty (None).
safe_load(doc) ==
    LET st == ParseFrom(ParseInit, doc)
    IN [ok |-> st.ok,
        top |-> CASE st.ctx = "start" -> "none"
                  [] st.ctx = "topseq" -> "list"
                  [] OTHER -> "map",
        vlan |-> st.vlan, netKind |-> st.netKind, rules |-> st.rules,
        auto |-> st.auto]

\* --------------------------------------------------------- network rules
get_default_ports_config == DEFAULT_PORTS \o DEFAULT_PORT_RANGES

\* As _create_network_rule, writing the destination under the legacy key.
_create_network_rule_legacy_key(number, from_segment, from_name, to_segment, to_name) ==
    MkLine("rule", PyNone, number, from_segment, from_name, "", to_segment,
           to_name, get_default_ports_config)

\* The rule is written under KEY_DESTINATION: the legacy key stays absent.
_create_network_rule(number, from_segment, from_name, to_segment, to_name) ==
    MkLine("rule", PyNone, number, from_segment, from_name, to_segment, "",
           to_name, get_default_ports_config)

create_network_config(mce_segment, cluster_segment, mce_name, cluster_name) ==
    << _create_network_rule(1, mce_segment, mce_name, cluster_segment, cluster_name),
       _create_network_rule(2, cluster_segment, cluster_name, mce_segment, mce_name) >>

\* ------------------------------------------------------- equality oracle
\* vlan_matches = str(existing_vlan_id) == str(vlan_id) if existing_vlan_id else False
vlan_matches(existing_vlan_id, vlan_id) ==
    IF Truthy(existing_vlan_id) THEN PyStr(existing_vlan_id) = vlan_id ELSE FALSE

\* As dest_seg, reading the canonical key only.
dest_seg_canonical_only(net) == net.dest

\* net.get(KEY_DESTINATION, {}).get(KEY_SEGMENT, '') or
\* net.get(KEY_DESTENTION, {}).get(KEY_SEGMENT, '')
dest_seg(net) == IF net.dest # "" THEN net.dest ELSE net.legacy
from_seg(net) == net.from

\* As rule_matches, comparing in the direction of the written rule 1 only.
rule_matches_directed(net, mce_segment, cluster_segment) ==
    from_seg(net) = mce_segment /\ dest_seg(net) = cluster_segment

rule_matches(net, mce_segment, cluster_segment) ==
    \/ (from_seg(net) = mce_segment /\ dest_seg(net) = cluster_segment)
    \/ (from_seg(net) = cluster_segment /\ dest_seg(net) = mce_segment)

\* for net in existing_networks: ... segments_match = True; break
RECURSIVE any_rule_matches(_, _, _)
any_rule_matches(nets, mce_segment, cluster_segment) ==
    IF nets = <<>> THEN FALSE
    ELSE IF rule_matches(Head(nets), mce_segment, cluster_segment) THEN TRUE
    ELSE any_rule_matches(Tail(nets), mce_segment, cluster_segment)

\* bool(existing_networks): a missing key gives [], "Networks:" alone None
networks_truthy(y) ==
    \/ y.netKind = "map"
    \/ (y.netKind = "list" /\ y.rules # <<>>)

segments_match(y, mce_segment, cluster_segment) ==
    IF mce_segment # None /\ networks_truthy(y)
    THEN any_rule_matches(y.rules, mce_segment, cluster_segment)
    ELSE mce_segment = None

\* net.get on the keys of a mapping raises AttributeError
oracle_raises(y, mce_segment) ==
    mce_segment # None /\ y.netKind = "map"

\* ------------------------------------------------------ document rewriter
\* The loop over original_lines; st = [out, skip_networks].
scan_step(st, line) ==
    IF StripStartsVlan(line) THEN st
    ELSE IF StripStartsNetworks(line) THEN [st EXCEPT !.skip = TRUE]
    ELSE IF st.skip /\ (StartsIndentOrDash(line) \/ IsBlank(line)) THEN st
    ELSE [out |-> Append(st.out, line), skip |-> FALSE]

RECURSIVE scan_from(_, _)
scan_from(st, lines) ==
    IF lines = <<>> THEN st
    ELSE scan_from(scan_step(st, Head(lines)), Tail(lines))

remove_managed(original_lines) ==
    scan_from([out |-> <<>>, skip |-> FALSE], original_lines).out

\* yaml.dump(new_sections, ..., sort_keys=False): vlanId as int(vlan_id),
\* then Networks when mce_segment and new_networks.
dump_new_sections(vlan_id, mce_segment, new_networks) ==
    <<VlanLine(PyInt(IntOf(vlan_id)))>> \o
    (IF mce_segment # None /\ new_networks # <<>>
     THEN <<Plain("net")>> \o new_networks
     ELSE <<>>)

\* What the file holds after open(cluster_path, 'w'), writelines and write,
\* by where the storage fails: "open_fails" before the file is truncated,
\* "truncated" after it was opened for writing, "stripped" after
\* writelines(new_content) and before write(new_yaml).
written(old, new_content, new_yaml, io) ==
    CASE io = "open_fails" -> old
      [] io = "truncated" -> <<>>
      [] io = "stripped" -> new_content
      [] OTHER -> new_content \o new_yaml

IOOutcomes == {"ok", "read_fails", "open_fails", "truncated", "stripped"}

\* cause: why the call ended in the except branch ("" when it did not):
\* "read" the file cannot be read, "yaml" safe_load raised, "attr" a .get on
\* a value that is no mapping, "write" the storage failed during the write.
Ret(success, action, doc, wrote, cause) ==
    [success |-> success, action |-> action, doc |-> doc, wrote |-> wrote,
     cause |-> cause]

\* As write_back, without the return on no_change: the file is written
\* whatever the action.
write_back_unconditional(action, doc, new_content, new_yaml, dry_run, io) ==
    IF dry_run THEN Ret(TRUE, action, doc, FALSE, "")
    ELSE IF io = "ok" THEN Ret(TRUE, action, new_content \o new_yaml, TRUE, "")
    ELSE Ret(FALSE, "error", written(doc, new_content, new_yaml, io),
             io # "open_fails", "write")

\* As write_back, without the return on dry_run.
write_back_ignoring_dry_run(action, doc, new_content, new_yaml, dry_run, io) ==
    IF action = "no_change" THEN Ret(TRUE, "no_change", doc, FALSE, "")
    ELSE IF io = "ok" THEN Ret(TRUE, action, new_content \o new_yaml, TRUE, "")
    ELSE Ret(FALSE, "error", written(doc, new_content, new_yaml, io),
             io # "open_fails", "write")

\* From the decided action on: return on no_change, return on dry_run,
\* else write new_content and new_yaml back.
write_back(action, doc, new_content, new_yaml, dry_run, io) ==
    IF action = "no_change" THEN Ret(TRUE, "no_change", doc, FALSE, "")
    ELSE IF dry_run THEN Ret(TRUE, action, doc, FALSE, "")
    ELSE IF io = "ok" THEN Ret(TRUE, action, new_content \o new_yaml, TRUE, "")
    ELSE Ret(FALSE, "error", written(doc, new_content, new_yaml, io),
             io # "open_fails", "write")

\* Returns (success, action), the file's content afterwards and whether the
\* file was opened for writing.
update_cluster_yaml_smart(doc, vlan_id, mce_segment, cluster_segment, mce_name, cluster_name, dry_run, io) ==
    LET y == safe_load(doc)
        new_networks ==
            IF mce_segment # None
            THEN create_network_config(mce_segment, cluster_segment,
                                       mce_name, cluster_name)
            ELSE <<>>
        new_content == remove_managed(doc)
        new_yaml == dump_new_sections(vlan_id, mce_segment, new_networks)
        action == IF vlan_matches(y.vlan, vlan_id)
                     /\ segments_match(y, mce_segment, cluster_segment)
                  THEN "no_change"
                  ELSE IF Truthy(y.vlan) \/ networks_truthy(y)
                  THEN "updated" ELSE "added"
    IN  IF io = "read_fails" THEN Ret(FALSE, "error", doc, FALSE, "read")
        ELSE IF ~y.ok THEN Ret(FALSE, "error", doc, FALSE, "yaml")
        ELSE IF y.top = "list" \/ oracle_raises(y, mce_segment)
        THEN Ret(FALSE, "error", doc, FALSE, "attr")
        ELSE write_back(action, doc, new_content, new_yaml, dry_run, io)

\* ---------------------------------------------------------------- inputs
RECURSIVE SeqsUpTo(_, _)
SeqsUpTo(S, n) ==
    IF n = 0 THEN {<<>>}
    ELSE LET shorter == SeqsUpTo(S, n - 1)
         IN shorter \cup {Append(d, x) : d \in {e \in shorter : Len(e) = n - 1}, x \in S}

\* Values a vlanId entry can hold: an integer, or the same digits quoted.
VlanValues == {PyInt(n) : n \in VlanIds} \cup {PyString(Digits(n)) : n \in VlanIds}

\* Destination of a persisted rule: under the canonical key, under the
\* legacy key, under neither, or under both with different segments.
DestForms ==
    {<<s, "">> : s \in Segments} \cup {<<"", s>> : s \in Segments}
    \cup {<<"", "">>}
    \cup {p \in Segments \X Segments : p[1] # p[2]}

RulePool == {RuleLine(f, d[1], d[2]) : f \in Segments, d \in DestForms}

\* Documents that differ in their line structure.
ScanAlphabet ==
    {Plain("kv"), Plain("key"), Plain("ind"), Plain("nnet"), Plain("blank"),
     Plain("cmt"), Plain("net"), VlanLine(PyInt(1)), NestedVlanLine(PyInt(1)),
     RuleLine("10.0.50.0/24", "10.1.100.0/24", "")}

\* Documents that differ in the managed fields they hold: an optional
\* vlanId entry, then an optional Networks entry with its rules.
OracleDocs ==
    LET nets == {<<>>} \cup {<<Plain("net")>> \o r : r \in SeqsUpTo(RulePool, MaxLen - 1)}
        vl == {<<>>} \cup {<<VlanLine(v)>> : v \in VlanValues}
    IN {d \in {v \o n : v \in vl, n \in nets} : Len(d) <= MaxLen}

\* An artifact's first content line starts in column 0.
RECURSIVE StartsAtColumn0(_)
StartsAtColumn0(d) ==
    IF d = <<>> THEN TRUE
    ELSE IF Head(d).kind \in {"blank", "cmt"} THEN StartsAtColumn0(Tail(d))
    ELSE ~Indented(Head(d))

ScanDocs == {d \in SeqsUpTo(ScanAlphabet, MaxLen) : StartsAtColumn0(d)}

MCE_NAME == "mce-1"
CLUSTER_NAME == "ocp4-a"

SmartArgs ==
    [vlan_id : {Digits(n) : n \in VlanIds},
     mce_segment : Segments \cup {None},
     cluster_segment : Segments,
     dry_run : BOOLEAN]

\* The desired states tried on the documents of ScanAlphabet, whose one rule
\* links the two segments: the MCE segment absent or present, the vlan id
\* that of the document's vlanId lines or another.
ScanArgs ==
    {a \in SmartArgs : /\ a.cluster_segment = "10.1.100.0/24"
                       /\ a.mce_segment # "10.1.100.0/24"
                       /\ a.vlan_id # Digits(0)}

\* ------------------------------------------------------- the batch's inputs
\* Cluster artifacts scan_all_clusters can find (ocp4-*.yaml) and the MCE
\* directories they can lie in; "ocp4-b" is a cluster that is also an MCE.
ClusterNames == {"ocp4-a", "ocp4-b"}
MCENames == {"mce-1", "ocp4-b"}
AllNames == ClusterNames \cup MCENames

\* Artifacts of a batch: empty, opted out, holding a vlanId only, holding a
\* vlanId and one rule, and holding rules after a comment.
RunDocs ==
    { <<>>,
      <<Plain("auto")>>,
      <<VlanLine(PyInt(1))>>,
      <<VlanLine(PyInt(1)), Plain("net"),
        RuleLine("10.0.50.0/24", "10.1.100.0/24", "")>>,
      <<Plain("net"), Plain("cmt"),
        RuleLine("10.0.50.0/24", "10.1.100.0/24", "")>> }

\* Sequences of distinct clusters: the order scan_all_clusters yields.
Batches ==
    {b \in SeqsUpTo(ClusterNames, Cardinality(ClusterNames)) :
        \A i \in 1..Len(b), j \in 1..Len(b) : i # j => b[i] # b[j]}

EmptyCache == [n \in AllNames |-> None]

\* What GET /segments?allocated=true can answer: no answer (timeout,
\* connection or HTTP error), or a list that gives some names a segment.
BulkAnswers ==
    {[kind |-> "fail", cache |-> EmptyCache]} \cup
    {[kind |-> "list", cache |-> c] :
        c \in {EmptyCache,
               [EmptyCache EXCEPT !["mce-1"] = "10.0.50.0/24"],
               [EmptyCache EXCEPT !["mce-1"] = "10.0.50.0/24",
                                  !["ocp4-b"] = "10.0.50.0/24"]}}

\* What POST /allocate-vlan can answer: no answer, a response that lacks
\* the segment or the vlan_id (segment "", vlan_id None), or a response
\* with a segment and a vlan id.
AllocAnswers ==
    {[kind |-> "fail", segment |-> "", vlan_id |-> PyNone],
     [kind |-> "resp", segment |-> "", vlan_id |-> PyInt(1)],
     [kind |-> "resp", segment |-> "10.1.100.0/24", vlan_id |-> PyNone]} \cup
    [kind : {"resp"}, segment : Segments, vlan_id : {PyInt(n) : n \in VlanIds}]

\* The artifacts of the second cluster of a batch.
OtherDocs == {<<>>, <<Plain("auto")>>, <<VlanLine(PyInt(1))>>}

\* ----------------------------------------------------------------- state
VARIABLES
    f_doc,      \* the artifact update_cluster_yaml_smart is called on
    f_args,     \* the desired state and the dry-run flag of the calls
    f_calls,    \* what each call so far found, returned and left on storage
    pc,              \* where main is: "main", "check_api", "fetch", "loop",
                     \* "summary", "exit"
    sites_ok,        \* the sites directory exists
    allocator_up,    \* the allocator answers GET /health
    clusters,        \* the batch scan_all_clusters finds
    mce_of,          \* cluster -> name of the directory its artifact lies in
    files,           \* cluster -> artifact content on storage
    orig_files,      \* files at the start of the run
    dry_run,         \* --dry-run
    api_available,   \* APIContext.api_available
    segments_cache,  \* APIContext.segments_cache
    idx,             \* the loop's position in clusters
    results,         \* process_all_clusters: results
    stats,           \* process_all_clusters: stats
    ret,             \* what process_all_clusters returned: "error", "empty",
                     \* "full" ("" while it runs)
    exit_code,       \* sys.exit's argument (-1 while the process runs)
    log              \* the calls to the allocator and to storage, in order

fvars == <<f_doc, f_args, f_calls>>
rvars == <<pc, sites_ok, allocator_up, clusters, mce_of, files, orig_files,
           dry_run, api_available, segments_cache, idx, results, stats, ret,
           exit_code, log>>
vars == <<fvars, rvars>>

ZeroStats ==
    [processed |-> 0, updated |-> 0, skipped |-> 0, errors |-> 0,
     api_unavailable |-> 0]

\* The run's variables before main starts.
RunIdle(b, m, f, so, up, dr) ==
    /\ pc = "main"
    /\ sites_ok = so
    /\ allocator_up = up
    /\ clusters = b
    /\ mce_of = m
    /\ files = f
    /\ orig_files = f
    /\ dry_run = dr
    /\ api_available = FALSE
    /\ segments_cache = EmptyCache
    /\ idx = 0
    /\ results = <<>>
    /\ stats = ZeroStats
    /\ ret = ""
    /\ exit_code = -1
    /\ log = <<>>

DefaultMce == [c \in ClusterNames |-> "mce-1"]
DefaultFiles == [c \in ClusterNames |-> <<>>]

\* ---------------------------------------- update_cluster_yaml_smart, twice
InitSmart ==
    /\ \/ f_doc \in ScanDocs /\ f_args \in ScanArgs
       \/ f_doc \in OracleDocs /\ f_args \in SmartArgs
    /\ f_calls = <<>>
    /\ RunIdle(<<>>, DefaultMce, DefaultFiles, TRUE, TRUE, FALSE)

Call(io) ==
    LET r == update_cluster_yaml_smart(f_doc, f_args.vlan_id, f_args.mce_segment,
                                       f_args.cluster_segment, MCE_NAME,
                                       CLUSTER_NAME, f_args.dry_run, io)
    IN  /\ f_doc' = r.doc
        /\ f_calls' = Append(f_calls,
                             [before |-> f_doc, after |-> r.doc,
                              success |-> r.success, action |-> r.action,
                              wrote |-> r.wrote, cause |-> r.cause])
        /\ UNCHANGED <<f_args, rvars>>

FirstCall == /\ f_calls = <<>>
             /\ \E io \in IOOutcomes : Call(io)

\* The same reconciliation again: same artifact, same desired state.
SecondCall == /\ Len(f_calls) = 1
              /\ \E io \in IOOutcomes : Call(io)

NextSmart == FirstCall \/ SecondCall

SpecSmart == InitSmart /\ [][NextSmart]_vars

\* ------------------------------------------------------------ the one run
Event(ev, c, info) == [ev |-> ev, c |-> c, info |-> info]

\* True unless the artifact loads as a mapping with AutomaticAllocation:
\* false; a file that cannot be read or loaded counts as enabled.
check_automatic_allocation_enabled(doc, io) ==
    LET y == safe_load(doc)
    IN  IF io = "read_fails" \/ ~y.ok \/ y.top = "list" THEN TRUE
        ELSE IF y.top = "none" THEN TRUE
        ELSE y.auto # "false"

\* check_api_availability: GET /health answered or not.
check_api_availability(up) == up

\* As allocate_vlan_segment, without the early return on api_available.
allocate_vlan_segment_unguarded(available, answer) ==
    IF answer.kind = "resp" /\ answer.segment # "" /\ Truthy(answer.vlan_id)
    THEN [posted |-> TRUE, segment |-> answer.segment,
          vlan_id |-> PyStr(answer.vlan_id)]
    ELSE [posted |-> TRUE, segment |-> None, vlan_id |-> <<>>]

\* (segment, vlan_id) or (None, None); posted: POST /allocate-vlan was sent.
allocate_vlan_segment(available, answer) ==
    IF ~available
    THEN [posted |-> FALSE, segment |-> None, vlan_id |-> <<>>]
    ELSE IF answer.kind = "resp" /\ answer.segment # "" /\ Truthy(answer.vlan_id)
    THEN [posted |-> TRUE, segment |-> answer.segment,
          vlan_id |-> PyStr(answer.vlan_id)]
    ELSE [posted |-> TRUE, segment |-> None, vlan_id |-> <<>>]

\* As fetch_all_segments, without the early return on api_available.
fetch_all_segments_unguarded(available, answer) ==
    IF answer.kind = "list" THEN [fetched |-> TRUE, cache |-> answer.cache]
    ELSE [fetched |-> TRUE, cache |-> EmptyCache]

\* The cache, and whether GET /segments?allocated=true was sent.
fetch_all_segments(available, answer) ==
    IF ~available THEN [fetched |-> FALSE, cache |-> EmptyCache]
    ELSE IF answer.kind = "list" THEN [fetched |-> TRUE, cache |-> answer.cache]
    ELSE [fetched |-> TRUE, cache |-> EmptyCache]

\* As get_mce_segment, answering a placeholder segment for a name the cache
\* does not hold.
get_mce_segment_with_placeholder(mce_name, cache) ==
    IF cache[mce_name] = None THEN "10.0.50.0/24" ELSE cache[mce_name]

get_mce_segment(mce_name, cache) == cache[mce_name]

ClusterResult(cluster_name, status, vlan_id, cluster_segment, mce_segment, error_message) ==
    [cluster_name |-> cluster_name, status |-> status, vlan_id |-> vlan_id,
     cluster_segment |-> cluster_segment, mce_segment |-> mce_segment,
     error_message |-> error_message]

\* What came back from POST /allocate-vlan: no response ("failed": timeout,
\* connection or HTTP error), a response that lacks the segment or the
\* vlan_id ("incomplete"), or one that has both ("complete").
response_kind(answer) ==
    IF answer.kind = "fail" THEN "failed"
    ELSE IF answer.segment = "" \/ answer.vlan_id.typ = "none" THEN "incomplete"
    ELSE "complete"

\* As cache_insert, leaving the cache as it is.
cache_insert_skipped(cache, cluster_name, cluster_segment) == cache

\* api_ctx.segments_cache[cluster_name] = cluster_segment
cache_insert(cache, cluster_name, cluster_segment) ==
    [cache EXCEPT ![cluster_name] = cluster_segment]

\* As process_single_cluster, storing the allocated segment in the cache
\* before the allocation is looked at.
process_single_cluster_cache_first(cluster_name, doc, mce_name, available, cache, dry, answer, io) ==
    LET rd == <<Event("read", cluster_name,
                      IF io = "read_fails" THEN "failed" ELSE "")>>
        a == allocate_vlan_segment(available, answer)
        post == IF a.posted
                THEN <<Event("post", cluster_name, response_kind(answer))>>
                ELSE <<>>
        cache2 == cache_insert(cache, cluster_name, a.segment)
        mce_segment == get_mce_segment(mce_name, cache2)
        u == update_cluster_yaml_smart(doc, a.vlan_id, mce_segment, a.segment,
                                       mce_name, cluster_name, dry, io)
        cmp == <<Event("compare", cluster_name, u.action)>>
        wr == IF u.wrote THEN <<Event("write", cluster_name, "")>> ELSE <<>>
        status == IF u.action = "no_change" THEN "success"
                  ELSE IF u.action = "updated" THEN "updated"
                  ELSE IF ~available THEN "api_unavailable" ELSE "success"
    IN  IF ~check_automatic_allocation_enabled(doc, io)
        THEN [result |-> ClusterResult(cluster_name, "skipped", <<>>, None, None,
                                       "AutomaticAllocation set to false"),
              cache |-> cache, doc |-> doc, log |-> rd]
        ELSE IF a.segment = None \/ a.vlan_id = <<>>
        THEN [result |-> ClusterResult(cluster_name, "error", <<>>, None, None,
                                       "VLAN allocation failed"),
              cache |-> cache2, doc |-> doc, log |-> rd \o post]
        ELSE IF u.success
        THEN [result |-> ClusterResult(cluster_name, status, a.vlan_id,
                                       a.segment, mce_segment, ""),
              cache |-> cache2, doc |-> u.doc, log |-> rd \o post \o cmp \o wr]
        ELSE [result |-> ClusterResult(cluster_name, "error", <<>>, None, None,
                                       "Failed to update YAML"),
              cache |-> cache2, doc |-> u.doc, log |-> rd \o post \o cmp \o wr]

\* extract_mce_name_from_path and extract_site_from_path give the names of
\* directories scan_all_clusters walked through: neither is ever empty, so
\* the two "Could not extract" returns are not taken.
process_single_cluster(cluster_name, doc, mce_name, available, cache, dry, answer, io) ==
    LET rd == <<Event("read", cluster_name,
                      IF io = "read_fails" THEN "failed" ELSE "")>>
        a == allocate_vlan_segment(available, answer)
        post == IF a.posted
                THEN <<Event("post", cluster_name, response_kind(answer))>>
                ELSE <<>>
        cache2 == cache_insert(cache, cluster_name, a.segment)
        mce_segment == get_mce_segment(mce_name, cache2)
        u == update_cluster_yaml_smart(doc, a.vlan_id, mce_segment, a.segment,
                                       mce_name, cluster_name, dry, io)
        cmp == <<Event("compare", cluster_name, u.action)>>
        wr == IF u.wrote THEN <<Event("write", cluster_name, "")>> ELSE <<>>
        status == IF u.action = "no_change" THEN "success"
                  ELSE IF u.action = "updated" THEN "updated"
                  ELSE IF ~available THEN "api_unavailable" ELSE "success"
    IN  IF ~check_automatic_allocation_enabled(doc, io)
        THEN [result |-> ClusterResult(cluster_name, "skipped", <<>>, None, None,
                                       "AutomaticAllocation set to false"),
              cache |-> cache, doc |-> doc, log |-> rd]
        ELSE IF a.segment = None \/ a.vlan_id = <<>>
        THEN [result |-> ClusterResult(cluster_name, "error", <<>>, None, None,
                                       "VLAN allocation failed"),
              cache |-> cache, doc |-> doc, log |-> rd \o post]
        ELSE IF u.success
        THEN [result |-> ClusterResult(cluster_name, status, a.vlan_id,
                                       a.segment, mce_segment, ""),
              cache |-> cache2, doc |-> u.doc, log |-> rd \o post \o cmp \o wr]
        ELSE [result |-> ClusterResult(cluster_name, "error", <<>>, None, None,
                                       "Failed to update YAML"),
              cache |-> cache2, doc |-> u.doc, log |-> rd \o post \o cmp \o wr]

\* As update_statistics, without the final else: a status that has no
\* counter of its own is not counted.
update_statistics_without_else(st, status) ==
    CASE status = "success" -> [st EXCEPT !.processed = @ + 1]
      [] status = "updated" -> [st EXCEPT !.updated = @ + 1]
      [] status = "skipped" -> [st EXCEPT !.skipped = @ + 1]
      [] status = "api_unavailable" -> [st EXCEPT !.api_unavailable = @ + 1]
      [] OTHER -> st

update_statistics(st, status) ==
    CASE status = "success" -> [st EXCEPT !.processed = @ + 1]
      [] status = "updated" -> [st EXCEPT !.updated = @ + 1]
      [] status = "skipped" -> [st EXCEPT !.skipped = @ + 1]
      [] status = "api_unavailable" -> [st EXCEPT !.api_unavailable = @ + 1]
      [] OTHER -> [st EXCEPT !.errors = @ + 1]

\* print_processing_summary reads processing_results["stats"], which the
\* dictionary returned for an empty batch does not have: KeyError.
print_processing_summary_raises(r) == r = "empty"

\* main: the argument of sys.exit.
main_exit_code(r, st) ==
    IF r = "error" THEN 1
    ELSE IF print_processing_summary_raises(r) THEN 1
    ELSE IF st.errors > 0 THEN 1 ELSE 0

Init ==
    /\ f_doc = <<>>
    /\ f_args = [vlan_id |-> Digits(1), mce_segment |-> None,
                 cluster_segment |-> "10.1.100.0/24", dry_run |-> FALSE]
    /\ f_calls = <<>>
    /\ \/ \E b \in Batches, up \in BOOLEAN, dr \in BOOLEAN,
            m \in [ClusterNames -> MCENames], f \in [ClusterNames -> RunDocs] :
            /\ m["ocp4-b"] = "mce-1"
            /\ f["ocp4-b"] \in OtherDocs
            /\ \A c \in ClusterNames :
                  (\A i \in 1..Len(b) : b[i] # c) => m[c] = "mce-1" /\ f[c] = <<>>
            /\ RunIdle(b, m, f, TRUE, up, dr)
       \/ RunIdle(<<>>, DefaultMce, DefaultFiles, FALSE, TRUE, FALSE)

\* process_all_clusters up to the health check: scan_all_clusters raises,
\* finds nothing, or finds the batch.
Scan ==
    /\ pc = "main"
    /\ IF ~sites_ok THEN pc' = "summary" /\ ret' = "error"
       ELSE IF clusters = <<>> THEN pc' = "summary" /\ ret' = "empty"
       ELSE pc' = "check_api" /\ ret' = ""
    /\ UNCHANGED <<fvars, sites_ok, allocator_up, clusters, mce_of, files,
                   orig_files, dry_run, api_available, segments_cache, idx,
                   results, stats, exit_code, log>>

CheckApi ==
    /\ pc = "check_api"
    /\ api_available' = check_api_availability(allocator_up)
    /\ log' = Append(log, Event("health", "", ""))
    /\ pc' = "fetch"
    /\ UNCHANGED <<fvars, sites_ok, allocator_up, clusters, mce_of, files,
                   orig_files, dry_run, segments_cache, idx, results, stats,
                   ret, exit_code>>

FetchSegments ==
    /\ pc = "fetch"
    /\ \E answer \in BulkAnswers :
          LET r == fetch_all_segments(api_available, answer)
          IN  /\ segments_cache' = r.cache
              /\ log' = IF r.fetched THEN Append(log, Event("fetch", "", answer.kind))
                        ELSE log
    /\ idx' = 1
    /\ pc' = "loop"
    /\ UNCHANGED <<fvars, sites_ok, allocator_up, clusters, mce_of, files,
                   orig_files, dry_run, api_available, results, stats, ret,
                   exit_code>>

\* One iteration of the loop of process_all_clusters.
ProcessCluster ==
    /\ pc = "loop"
    /\ idx <= Len(clusters)
    /\ \E answer \in AllocAnswers, io \in IOOutcomes :
          LET c == clusters[idx]
              r == process_single_cluster(c, files[c], mce_of[c], api_available,
                                          segments_cache, dry_run, answer, io)
          IN  /\ results' = Append(results, r.result)
              /\ stats' = update_statistics(stats, r.result.status)
              /\ segments_cache' = r.cache
              /\ files' = [files EXCEPT ![c] = r.doc]
              /\ log' = log \o r.log
    /\ idx' = idx + 1
    /\ IF idx = Len(clusters) THEN pc' = "summary" /\ ret' = "full"
       ELSE pc' = "loop" /\ ret' = ""
    /\ UNCHANGED <<fvars, sites_ok, allocator_up, clusters, mce_of, orig_files,
                   dry_run, api_available, exit_code>>

\* print_processing_summary and sys.exit.
Exit ==
    /\ pc = "summary"
    /\ exit_code' = main_exit_code(ret, stats)
    /\ pc' = "exit"
    /\ UNCHANGED <<fvars, sites_ok, allocator_up, clusters, mce_of, files,
                   orig_files, dry_run, api_available, segments_cache, idx,
                   results, stats, ret, log>>

Next == Scan \/ CheckApi \/ FetchSegments \/ ProcessCluster \/ Exit

Spec == Init /\ [][Next]_vars

\* ================================================================ claims
\* ------------------------------------------------------------- vocabulary
Calls == 1..Len(f_calls)
Loaded(k) == safe_load(f_calls[k].before)
\* The call ran with working storage and changed the artifact.
Rewrote(k) ==
    f_calls[k].success /\ f_calls[k].action \in {"added", "updated"}
    /\ f_calls[k].wrote

\* The persisted vlanId is present and its string form is the desired one.
VlanMatchesSpec(y, vlan_id) == y.vlan.typ # "none" /\ PyStr(y.vlan) = vlan_id

\* Some persisted rule links the two segments, in either direction.
PairPersisted(y, mce_segment, cluster_segment) ==
    \E i \in 1..Len(y.rules) :
        {y.rules[i].from, dest_seg(y.rules[i])} = {mce_segment, cluster_segment}

SegmentsMatchSpec(y, mce_segment, cluster_segment) ==
    mce_segment = None \/ PairPersisted(y, mce_segment, cluster_segment)

\* The lines outside the top-level vlanId entry and the top-level Networks
\* entry with its continuation lines (indented, list item or blank).
RECURSIVE UnmanagedFrom(_, _)
UnmanagedFrom(lines, inNetworks) ==
    IF lines = <<>> THEN <<>>
    ELSE LET l == Head(lines)
         IN  CASE l.kind = "vlan" -> UnmanagedFrom(Tail(lines), FALSE)
               [] l.kind = "net" -> UnmanagedFrom(Tail(lines), TRUE)
               [] inNetworks /\ (StartsIndentOrDash(l) \/ IsBlank(l)) ->
                     UnmanagedFrom(Tail(lines), TRUE)
               [] OTHER -> <<l>> \o UnmanagedFrom(Tail(lines), FALSE)

Unmanaged(doc) == UnmanagedFrom(doc, FALSE)

\* a is b with some lines left out.
RECURSIVE IsSubsequence(_, _)
IsSubsequence(a, b) ==
    IF a = <<>> THEN TRUE
    ELSE IF b = <<>> THEN FALSE
    ELSE IF Head(a) = Head(b) THEN IsSubsequence(Tail(a), Tail(b))
    ELSE IsSubsequence(a, Tail(b))

\* The managed section a rewrite appends for the desired state.
ManagedSection ==
    dump_new_sections(f_args.vlan_id, f_args.mce_segment,
        IF f_args.mce_segment # None
        THEN create_network_config(f_args.mce_segment, f_args.cluster_segment,
                                   MCE_NAME, CLUSTER_NAME)
        ELSE <<>>)

Count(ev) == Cardinality({i \in 1..Len(log) : log[i].ev = ev})
HealthChecked == \E i \in 1..Len(log) : log[i].ev = "health"
HealthFailed == HealthChecked /\ ~api_available
HasError == \E k \in 1..Len(results) : results[k].status = "error"
HasDirected(rules, from, to) ==
    \E i \in 1..Len(rules) : rules[i].from = from /\ dest_seg(rules[i]) = to

\* C1: a reconciliation that added to or updated the artifact is followed,
\* for the same artifact and the same desired state, by one that returns
\* no_change and writes nothing (storage working in the second).
C1_Idempotence ==
    (Len(f_calls) = 2 /\ Rewrote(1) /\ f_calls[2].cause \notin {"read", "write"})
    => /\ f_calls[2].action = "no_change"
       /\ ~f_calls[2].wrote
       /\ f_calls[2].after = f_calls[2].before

\* C2: after a pass that writes, every artifact whose result is neither
\* skipped nor error loads with the vlan id the allocator assigned and, when
\* the MCE segment was in the cache, with both directed rules.
C2_EndState ==
    (pc = "exit" /\ ret = "full" /\ ~dry_run) =>
        \A k \in 1..Len(results) :
            results[k].status \notin {"skipped", "error"} =>
                LET y == safe_load(files[results[k].cluster_name])
                    mce == results[k].mce_segment
                    own == results[k].cluster_segment
                IN  /\ y.ok /\ y.top = "map"
                    /\ VlanMatchesSpec(y, results[k].vlan_id)
                    /\ mce # None =>
                          /\ HasDirected(y.rules, mce, own)
                          /\ HasDirected(y.rules, own, mce)

\* C3: a rewrite keeps every line outside the top-level vlanId entry and
\* the top-level Networks entry, in order, ahead of the appended section.
C3_ContentPreservation ==
    \A k \in Calls :
        Rewrote(k) =>
            LET out == f_calls[k].after
                n == Len(out) - Len(ManagedSection)
            IN  /\ n >= 0
                /\ SubSeq(out, n + 1, Len(out)) = ManagedSection
                /\ IsSubsequence(Unmanaged(f_calls[k].before), SubSeq(out, 1, n))

\* C4: when the health check failed no artifact is written, no POST
\* /allocate-vlan and no bulk fetch is issued, and the cache stays empty.
C4_ZeroMutationsWhenUnavailable ==
    HealthFailed =>
        /\ files = orig_files
        /\ Count("write") = 0
        /\ Count("post") = 0
        /\ Count("fetch") = 0
        /\ segments_cache = EmptyCache

C4_Witness ==
    /\ pc = "exit" /\ HealthFailed
    /\ Len(results) = 2
    /\ \E k \in 1..2 : results[k].status = "error"

\* C5: when the health check failed the loop is never entered: no artifact
\* is read or compared and no result is recorded.
C5_FailFastAbort ==
    HealthFailed =>
        /\ results = <<>>
        /\ Count("read") = 0
        /\ Count("compare") = 0

\* C6: in a run that found its sites directory, the exit code is non-zero
\* exactly when the allocator was unreachable at the start or some artifact
\* ended in error.
C6_ExitStatus ==
    (pc = "exit" /\ sites_ok) =>
        ((exit_code # 0) <=> (~allocator_up \/ HasError))

\* C7 as stated: every run issues exactly one bulk fetch.
C7_ExactlyOneFetch ==
    pc = "exit" => Count("fetch") = 1

\* C7 as amended: at most one bulk fetch per run; exactly one once the
\* warm-up of a run with a non-empty batch and a successful health check is
\* done, none when the batch is empty, the scan failed or the health check
\* failed; the fetch precedes every per-artifact step.
C7_SingleBulkFetch ==
    /\ Count("fetch") <= 1
    /\ (pc = "loop" \/ ret = "full") =>
          Count("fetch") = IF api_available THEN 1 ELSE 0
    /\ ret \in {"error", "empty"} => Count("fetch") = 0
    /\ \A i \in 1..Len(log), j \in 1..Len(log) :
          (log[i].ev = "fetch" /\ log[j].ev \in {"read", "post", "compare", "write"})
          => i < j

C7_Witness ==
    /\ pc = "exit" /\ Len(results) = 2 /\ Count("fetch") = 1
    /\ Count("compare") = 2

\* C8: an artifact whose content fails to load is reconciled as an empty
\* one: the call succeeds with action added.
C8_ParseFailureIsAdded ==
    \A k \in Calls :
        (~Loaded(k).ok /\ f_calls[k].cause # "read") =>
            f_calls[k].success /\ f_calls[k].action = "added"

\* C9: the oracle returns no_change exactly when the persisted vlanId is
\* present with the desired string form and the segments match.
C9_NoChangeIffMatches ==
    \A k \in Calls :
        f_calls[k].cause = "" =>
            (f_calls[k].action = "no_change" <=>
                /\ VlanMatchesSpec(Loaded(k), f_args.vlan_id)
                /\ SegmentsMatchSpec(Loaded(k), f_args.mce_segment,
                                     f_args.cluster_segment))

\* C10: with the MCE segment present (and the vlan id matching), the oracle
\* returns no_change exactly when some persisted rule links the MCE segment
\* and the cluster segment, in either direction.
C10_OrderInvariance ==
    \A k \in Calls :
        (/\ f_calls[k].cause = ""
         /\ f_args.mce_segment # None
         /\ vlan_matches(Loaded(k).vlan, f_args.vlan_id)) =>
            (f_calls[k].action = "no_change" <=>
                PairPersisted(Loaded(k), f_args.mce_segment,
                              f_args.cluster_segment))

\* A persisted rule cluster -> MCE only, and no update.
C10_Witness ==
    /\ Len(f_calls) = 1
    /\ f_args.mce_segment \notin {None, f_args.cluster_segment}
    /\ Loaded(1).rules # <<>>
    /\ \A i \in 1..Len(Loaded(1).rules) :
          /\ Loaded(1).rules[i].from = f_args.cluster_segment
          /\ dest_seg(Loaded(1).rules[i]) = f_args.mce_segment
    /\ f_calls[1].action = "no_change"

\* C11: with the MCE segment absent the oracle returns no_change exactly
\* when the persisted vlanId is present with the desired string form,
\* whatever rules the artifact persists.
C11_DegradedComparison ==
    \A k \in Calls :
        (f_calls[k].cause = "" /\ f_args.mce_segment = None) =>
            (f_calls[k].action = "no_change" <=>
                VlanMatchesSpec(Loaded(k), f_args.vlan_id))

\* C12: a call that does not return no_change returns updated exactly when
\* the artifact held a vlanId entry or a Networks entry with content (rules,
\* or a nested mapping), and added otherwise.
C12_UpdatedIffPreexisting ==
    \A k \in Calls :
        (f_calls[k].cause = "" /\ f_calls[k].action # "no_change") =>
            (f_calls[k].action =
                IF Loaded(k).vlan.typ # "none"
                   \/ Loaded(k).netKind \in {"list", "map"}
                THEN "updated" ELSE "added")

\* The rule with its destination endpoint moved from the legacy key to the
\* canonical key; a rule that has the canonical key is left as it is.
CanonicalSpelling(l) ==
    IF l.kind = "rule" /\ l.dest = "" /\ l.legacy # ""
    THEN [l EXCEPT !.dest = l.legacy, !.legacy = ""]
    ELSE l

\* The artifact with every legacy destination key spelled canonically.
AsCanonical(doc) == [i \in 1..Len(doc) |-> CanonicalSpelling(doc[i])]

\* C13: an artifact whose rules name the destination with the legacy key
\* gets the same answer (success and action) as the artifact that differs
\* from it only in spelling that key canonically, for every desired state.
C13_LegacyAliasTolerance ==
    \A k \in Calls :
        f_calls[k].cause \notin {"read", "write"} =>
            LET twin == update_cluster_yaml_smart(
                            AsCanonical(f_calls[k].before), f_args.vlan_id,
                            f_args.mce_segment, f_args.cluster_segment,
                            MCE_NAME, CLUSTER_NAME, f_args.dry_run, "ok")
            IN  /\ f_calls[k].action = twin.action
                /\ f_calls[k].success = twin.success

\* A rule under the legacy key alone links the two segments: no_change.
C13_Witness ==
    /\ Len(f_calls) = 1
    /\ f_args.mce_segment # None
    /\ f_calls[1].action = "no_change"
    /\ Loaded(1).rules # <<>>
    /\ \A i \in 1..Len(Loaded(1).rules) :
          /\ Loaded(1).rules[i].dest = ""
          /\ Loaded(1).rules[i].legacy # ""
    /\ AsCanonical(f_calls[1].before) # f_calls[1].before

\* The lines of doc from position i on.
From(doc, i) == SubSeq(doc, i, Len(doc))

\* Some rule the artifact held under Networks is still a line of out.
PriorRuleRemains(y, out) ==
    \E i \in 1..Len(y.rules), j \in 1..Len(out) : out[j] = y.rules[i]

\* C14: a rewrite appends the managed section after the retained content:
\* the vlanId entry as an integer, then Networks when the MCE segment is
\* present.  When it is absent the vlanId entry is the last line, no
\* Networks entry and no rule of the prior Networks block is left, and the
\* call succeeds.
C14_ManagedSectionOfRewrite ==
    \A k \in Calls :
        LET out == f_calls[k].after
            tail == IF f_args.mce_segment = None THEN 1 ELSE 4
            n == Len(out) - tail
        IN  /\ Rewrote(k) =>
                /\ n >= 0
                /\ out[n + 1].kind = "vlan"
                /\ out[n + 1].val = PyInt(IntOf(f_args.vlan_id))
                /\ \A i \in 1..n : out[i].kind \notin {"vlan", "net"}
                /\ f_args.mce_segment # None =>
                      /\ out[n + 2].kind = "net"
                      /\ out[n + 3].kind = "rule" /\ out[n + 4].kind = "rule"
                /\ f_args.mce_segment = None =>
                      /\ \A i \in 1..Len(out) : out[i].kind # "net"
                      /\ ~PriorRuleRemains(Loaded(k), out)
            /\ (/\ f_args.mce_segment = None
                /\ Loaded(k).ok /\ Loaded(k).top # "list"
                /\ f_calls[k].cause \notin {"read", "write"})
                  => f_calls[k].success

\* The fixed port set: two discrete ports and one port range, all TCP.
IsDefaultPortSet(ports) ==
    /\ Len(ports) = 3
    /\ Cardinality({i \in 1..3 : ports[i][1] = "port"}) = 2
    /\ Cardinality({i \in 1..3 : ports[i][1] = "range"}) = 1
    /\ \A i \in 1..3 : ports[i][3] = "TCP"

\* l is the written rule number n from one named segment to another, its
\* destination under the canonical key and the legacy key absent.
IsWrittenRule(l, n, from, fname, to, dname) ==
    /\ l.kind = "rule" /\ l.num = n
    /\ l.from = from /\ l.fname = fname
    /\ l.dest = to /\ l.dname = dname
    /\ l.legacy = ""
    /\ IsDefaultPortSet(l.ports)

\* C15: the Networks entry a rewrite leaves holds exactly two rules: number
\* 1 from the MCE segment (MCE name) to the cluster segment (cluster name),
\* number 2 the reverse, each with the fixed port set and the destination
\* under the canonical key.
C15_TwoCanonicalRules ==
    \A k \in Calls :
        Rewrote(k) =>
            LET out == f_calls[k].after
            IN  \A i \in 1..Len(out) :
                    out[i].kind = "net" =>
                        /\ f_args.mce_segment # None
                        /\ Len(out) = i + 2
                        /\ IsWrittenRule(out[i + 1], 1,
                               f_args.mce_segment, MCE_NAME,
                               f_args.cluster_segment, CLUSTER_NAME)
                        /\ IsWrittenRule(out[i + 2], 2,
                               f_args.cluster_segment, CLUSTER_NAME,
                               f_args.mce_segment, MCE_NAME)

\* A rewrite that replaced a stale rule by the two rules.
C15_Witness ==
    /\ Len(f_calls) = 1 /\ Rewrote(1)
    /\ f_args.mce_segment \notin {None, f_args.cluster_segment}
    /\ Loaded(1).rules # <<>>
    /\ \E i \in 1..Len(f_calls[1].after) : f_calls[1].after[i].kind = "net"

\* How many lines of doc have one of the kinds.
CountKind(doc, kinds) == Cardinality({i \in 1..Len(doc) : doc[i].kind \in kinds})

\* The list items of an artifact that lie outside its top-level Networks
\* entries; an entry runs up to the next column-0 key, comments included.
RECURSIVE ItemsOutsideNetworks(_, _)
ItemsOutsideNetworks(lines, inNetworks) ==
    IF lines = <<>> THEN 0
    ELSE LET l == Head(lines)
         IN  CASE l.kind = "net" -> ItemsOutsideNetworks(Tail(lines), TRUE)
               [] TopKey(l) -> ItemsOutsideNetworks(Tail(lines), FALSE)
               [] l.kind = "rule" /\ ~inNetworks ->
                     1 + ItemsOutsideNetworks(Tail(lines), inNetworks)
               [] OTHER -> ItemsOutsideNetworks(Tail(lines), inNetworks)

\* C16: after a rewrite the artifact has exactly one vlanId entry and at
\* most one Networks entry, which holds two rules; of the list items it had
\* before, none that stood under a Networks entry is left.
C16_ReplaceWholesale ==
    \A k \in Calls :
        Rewrote(k) =>
            LET out == f_calls[k].after
                written_rules == IF CountKind(out, {"net"}) = 1 THEN 2 ELSE 0
            IN  /\ CountKind(out, {"vlan", "nvlan"}) = 1
                /\ CountKind(out, {"net", "nnet"}) <= 1
                /\ CountKind(out, {"rule"}) - written_rules
                      <= ItemsOutsideNetworks(f_calls[k].before, FALSE)

\* C17: a call that decides no_change does not open the artifact for
\* writing and leaves its stored content as it was.
C17_NoChangeWritesNothing ==
    \A k \in Calls :
        f_calls[k].action = "no_change" =>
            /\ ~f_calls[k].wrote
            /\ f_calls[k].after = f_calls[k].before

\* A non-dry-run call finds the vlan id and a linking rule: no_change.
C17_Witness ==
    /\ Len(f_calls) = 1
    /\ ~f_args.dry_run
    /\ f_args.mce_segment # None
    /\ Loaded(1).rules # <<>>
    /\ f_calls[1].action = "no_change"

\* The action logged when cluster c's artifact was compared.
LoggedAction(c) ==
    LET i == CHOOSE i \in 1..Len(log) : log[i].ev = "compare" /\ log[i].c = c
    IN  log[i].info

\* C18: a dry-run pass writes no artifact, whatever the batch and the
\* allocator's answers, and the action it reports for an artifact is the one
\* a pass that writes decides for the same content and desired state.
C18_DryRun ==
    dry_run =>
        /\ files = orig_files
        /\ Count("write") = 0
        /\ \A k \in 1..Len(results) :
              results[k].status \notin {"skipped", "error"} =>
                  LET c == results[k].cluster_name
                      twin == update_cluster_yaml_smart(
                                  orig_files[c], results[k].vlan_id,
                                  results[k].mce_segment,
                                  results[k].cluster_segment,
                                  mce_of[c], c, FALSE, "ok")
                  IN  LoggedAction(c) = twin.action

\* A dry-run pass over two artifacts, one of which it would update and one
\* of which it would add to.
C18_Witness ==
    /\ pc = "exit" /\ dry_run /\ Len(results) = 2
    /\ \E k \in 1..2 : /\ results[k].status = "updated"
                        /\ LoggedAction(results[k].cluster_name) = "updated"
    /\ \E k \in 1..2 : /\ results[k].status = "success"
                        /\ LoggedAction(results[k].cluster_name) = "added"

\* The sum of the run's counters.
StatsTotal ==
    stats.processed + stats.updated + stats.skipped + stats.errors
    + stats.api_unavailable

\* C19: once the loop is reached there is one result per artifact handled
\* so far, in the batch's order, and the counters sum to their number; when
\* the loop is over every artifact of the batch has its result.
C19_PerArtifactIsolation ==
    /\ (pc = "loop" \/ ret = "full") =>
          /\ Len(results) = idx - 1
          /\ \A k \in 1..Len(results) : results[k].cluster_name = clusters[k]
          /\ StatsTotal = Len(results)
    /\ ret = "full" => Len(results) = Len(clusters)

\* The first artifact's update failed; the second was still reconciled.
C19_Witness ==
    /\ pc = "exit" /\ Len(results) = 2
    /\ results[1].status = "error"
    /\ results[1].error_message = "Failed to update YAML"
    /\ results[2].status \in {"success", "updated"}

\* POST /allocate-vlan for cluster c got no response or an incomplete one.
AllocationFailed(c) ==
    \E i \in 1..Len(log) :
        log[i].ev = "post" /\ log[i].c = c /\ log[i].info # "complete"

\* The step in which cluster c's allocation fails: its result is an error,
\* no artifact and no cache entry changes, and the loop goes on to the next
\* artifact when there is one.
AllocationFailureStep(c) ==
    (~AllocationFailed(c) /\ AllocationFailed(c)') =>
        /\ Len(results') = Len(results) + 1
        /\ results'[Len(results')].cluster_name = c
        /\ results'[Len(results')].status = "error"
        /\ files' = files
        /\ segments_cache' = segments_cache
        /\ pc' = IF idx < Len(clusters) THEN "loop" ELSE "summary"

\* When the loop is over, the artifact whose allocation failed is unchanged
\* and every artifact of the batch has a result.
AllocationFailureOutcome ==
    \A c \in ClusterNames :
        (AllocationFailed(c) /\ ret = "full") =>
            /\ files[c] = orig_files[c]
            /\ \A j \in 1..Len(clusters) :
                  \E k \in 1..Len(results) : results[k].cluster_name = clusters[j]

\* C20: when the allocation call for a cluster fails or answers without
\* segment or vlan_id, the artifact's result is error, its content and the
\* cache are left as they were, and the rest of the batch is processed.
C20_AllocationFailure ==
    /\ []AllocationFailureOutcome
    /\ [][\A c \in ClusterNames : AllocationFailureStep(c)]_vars

\* The first allocation answered without vlan_id; the second artifact was
\* then allocated for and written.
C20_Witness ==
    /\ pc = "exit" /\ Len(results) = 2
    /\ \E i \in 1..Len(log) :
          /\ log[i].ev = "post" /\ log[i].c = clusters[1]
          /\ log[i].info = "incomplete"
    /\ results[1].status = "error"
    /\ \E i \in 1..Len(log) : log[i].ev = "write" /\ log[i].c = clusters[2]

\* The artifact loads as a mapping that sets AutomaticAllocation to false.
OptedOut(doc) ==
    LET y == safe_load(doc)
    IN  y.ok /\ y.top = "map" /\ y.auto = "false"

\* Some event of the kind is logged for cluster c.
Logged(ev, c) == \E i \in 1..Len(log) : log[i].ev = ev /\ log[i].c = c

\* The result of an opted-out artifact is skipped, and no allocation
\* request and no write is logged for it.
OptOutOutcome ==
    \A k \in 1..Len(results) :
        LET c == results[k].cluster_name
        IN  OptedOut(orig_files[c]) =>
                /\ results[k].status = "skipped"
                /\ ~Logged("post", c)
                /\ ~Logged("write", c)
                /\ files[c] = orig_files[c]

\* The step that handles an opted-out artifact leaves the cache as it is.
OptOutStep ==
    (pc = "loop" /\ idx <= Len(clusters) /\ OptedOut(files[clusters[idx]]))
        => segments_cache' = segments_cache

\* C21: an artifact that sets AutomaticAllocation to false is skipped: no
\* allocation request is issued for it, it is not written and the cache is
\* not modified.
C21_OptOut ==
    /\ []OptOutOutcome
    /\ [][OptOutStep]_vars

\* The allocation for cluster c succeeded: its result carries the segment.
Allocated(k) == results[k].cluster_segment # None

\* C22: once a cluster was allocated a segment, the cache maps the cluster
\* to that segment, and every artifact handled later whose MCE is that
\* cluster gets this segment as its MCE segment, with no allocation request
\* beyond the one of each artifact.
C22_CacheWriteBeforeLookup ==
    /\ \A k \in 1..Len(results) :
          Allocated(k) =>
              /\ segments_cache[results[k].cluster_name]
                    = results[k].cluster_segment
              /\ \A j \in (k + 1)..Len(results) :
                    (/\ mce_of[results[j].cluster_name] = results[k].cluster_name
                     /\ Allocated(j)) =>
                        results[j].mce_segment = results[k].cluster_segment
    /\ \A c \in ClusterNames :
          Cardinality({i \in 1..Len(log) : log[i].ev = "post" /\ log[i].c = c}) <= 1

\* The second artifact lies in the directory named after the first
\* cluster, which the bulk fetch did not list: its MCE segment is the one
\* just allocated to the first.
C22_Witness ==
    /\ pc = "exit" /\ Len(results) = 2
    /\ mce_of[clusters[2]] = clusters[1]
    /\ Count("fetch") = 1
    /\ Allocated(1) /\ Allocated(2)
    /\ results[2].mce_segment = results[1].cluster_segment
    /\ \E i \in 1..Len(log) : log[i].ev = "fetch" /\ log[i].info = "fail"

\* The events a step appended to the log.
NewEvents == SubSeq(log', Len(log) + 1, Len(log'))

\* One iteration of the loop on cluster c: the only cache entry that may
\* change is c's own, the only request is an allocation request for c, at
\* most one, and a result that is no error and not skipped carries as MCE
\* segment what the cache holds for the MCE's name, absence when it holds
\* nothing.
LookupStep ==
    (pc = "loop" /\ idx <= Len(clusters)) =>
        LET c == clusters[idx]
            r == results'[Len(results')]
        IN  /\ \A n \in AllNames \ {c} : segments_cache'[n] = segments_cache[n]
            /\ \A i \in 1..Len(NewEvents) :
                  /\ NewEvents[i].ev \in {"read", "post", "compare", "write"}
                  /\ NewEvents[i].c = c
            /\ Cardinality({i \in 1..Len(NewEvents) : NewEvents[i].ev = "post"}) <= 1
            /\ Len(results') = Len(results) + 1
            /\ r.status \notin {"skipped", "error"} =>
                  r.mce_segment = segments_cache'[mce_of[c]]

\* C23: the MCE lookup reads the cache and nothing else: inside the loop
\* the only requests are allocation requests, at most one per artifact, the
\* lookup changes no cache entry, and a missing MCE gives an absent MCE
\* segment, not an error.
C23_PureLookup == [][LookupStep]_vars

\* An artifact whose MCE the cache does not hold was reconciled.
C23_Witness ==
    /\ pc = "exit" /\ Len(results) = 1
    /\ Count("fetch") = 1
    /\ segments_cache[mce_of[clusters[1]]] = None
    /\ results[1].status = "updated"
    /\ results[1].mce_segment = None
    /\ Logged("write", clusters[1])

\* The bulk fetch was sent and got no answer.
BulkFetchFailed ==
    \E i \in 1..Len(log) : log[i].ev = "fetch" /\ log[i].info = "fail"

\* C24: when the bulk fetch was sent and got no answer, the loop starts
\* with an empty cache and with the allocator flagged unavailable, also
\* when the health check before it succeeded.
C24_BulkFetchFailure ==
    (pc = "loop" /\ idx = 1 /\ BulkFetchFailed) =>
        /\ segments_cache = EmptyCache
        /\ ~api_available

\* What the artifact holds after a rewrite that went through.
CompleteNewContent(doc) ==
    update_cluster_yaml_smart(doc, f_args.vlan_id, f_args.mce_segment,
                              f_args.cluster_segment, MCE_NAME, CLUSTER_NAME,
                              FALSE, "ok").doc

\* C25: whatever happens to the storage during a call, the artifact is
\* afterwards either its complete previous content or its complete new
\* content, and a call whose write failed returns an error.
C25_AtomicRewrite ==
    \A k \in Calls :
        /\ \/ f_calls[k].after = f_calls[k].before
           \/ f_calls[k].after = CompleteNewContent(f_calls[k].before)
        /\ f_calls[k].cause = "write" =>
              ~f_calls[k].success /\ f_calls[k].action = "error"

\* The two-state scan: in the block, a line that is indented, begins a list
\* item or is blank is skipped; any other line ends the block and is then
\* handled as in the normal state, where a vlanId line is dropped, a
\* Networks line is dropped and starts a block, and any other line is kept.
TwoStateStep(st, line) ==
    IF st.inBlock /\ (StartsIndentOrDash(line) \/ IsBlank(line)) THEN st
    ELSE IF StripStartsVlan(line) THEN [st EXCEPT !.inBlock = FALSE]
    ELSE IF StripStartsNetworks(line) THEN [st EXCEPT !.inBlock = TRUE]
    ELSE [out |-> Append(st.out, line), inBlock |-> FALSE]

RECURSIVE TwoStateFrom(_, _)
TwoStateFrom(st, lines) ==
    IF lines = <<>> THEN st
    ELSE TwoStateFrom(TwoStateStep(st, Head(lines)), Tail(lines))

TwoStateScan(doc) == TwoStateFrom([out |-> <<>>, inBlock |-> FALSE], doc).out

\* C26: the content a rewrite retains ahead of the managed section is what
\* the two-state scan retains; a vlanId line inside the block ends the
\* block like any other line that is neither indented, a list item nor
\* blank.
C26_TwoStateScan ==
    \A k \in Calls :
        Rewrote(k) =>
            LET out == f_calls[k].after
                n == Len(out) - Len(ManagedSection)
            IN  n >= 0 /\ SubSeq(out, 1, n) = TwoStateScan(f_calls[k].before)

\* The results whose artifact was compared with the given action.
WithAction(action) ==
    {k \in 1..Len(results) :
        /\ Logged("compare", results[k].cluster_name)
        /\ LoggedAction(results[k].cluster_name) = action}

\* C27: the result of an artifact whose action was added is not the status
\* recorded for no_change, and the counter reported as already up-to-date
\* counts the artifacts whose action was no_change and no other.
C27_ResultCategories ==
    /\ \A k \in WithAction("added") : results[k].status # "success"
    /\ stats.processed = Cardinality(WithAction("no_change"))

\* ------------------------------------------------ one pass, in two orders
\* The action process_single_cluster's call of update_cluster_yaml_smart
\* returned for cluster c, "none" when it did not get that far.
action_of(events, c) ==
    IF \E i \in 1..Len(events) : events[i].ev = "compare" /\ events[i].c = c
    THEN events[CHOOSE i \in 1..Len(events) :
                    events[i].ev = "compare" /\ events[i].c = c].info
    ELSE "none"

\* The artifacts of the two clusters and the allocator's answer for each.
OrderDocs ==
    { <<>>, <<VlanLine(PyInt(1))>>,
      <<VlanLine(PyInt(1)), Plain("net"),
        RuleLine("10.0.50.0/24", "10.1.100.0/24", "")>> }

OrderAnswers ==
    {[kind |-> "fail", segment |-> "", vlan_id |-> PyNone]} \cup
    [kind : {"resp"}, segment : Segments, vlan_id : {PyInt(1)}]

Reverse(s) == [i \in 1..Len(s) |-> s[Len(s) + 1 - i]]

\* f_args holds the allocator's answers, fixed for both passes; clusters
\* the order of the pass; orig_files and mce_of the batch.
InitOrder ==
    /\ f_doc = <<>>
    /\ f_calls = <<>>
    /\ f_args \in [bulk : BulkAnswers, answers : [ClusterNames -> OrderAnswers]]
    /\ \E b \in Batches, m \in [ClusterNames -> MCENames],
          f \in [ClusterNames -> OrderDocs] :
            /\ Len(b) = Cardinality(ClusterNames)
            /\ m["ocp4-b"] = "mce-1"
            /\ RunIdle(b, m, f, TRUE, TRUE, FALSE)

\* process_all_clusters up to its loop, the health check answered: the
\* bulk fetch.  The second pass starts from the artifacts as they were,
\* with the batch in the other order.
OrderFetch ==
    /\ pc = "main"
    /\ Len(f_calls) < 2
    /\ pc' = "loop"
    /\ idx' = 1
    /\ api_available' = check_api_availability(allocator_up)
    /\ segments_cache' = fetch_all_segments(TRUE, f_args.bulk).cache
    /\ files' = orig_files
    /\ clusters' = IF f_calls = <<>> THEN clusters ELSE Reverse(clusters)
    /\ log' = <<>>
    /\ UNCHANGED <<fvars, sites_ok, allocator_up, mce_of, orig_files, dry_run,
                   results, stats, ret, exit_code>>

\* One iteration of the loop of process_all_clusters.
OrderProcess ==
    /\ pc = "loop"
    /\ idx <= Len(clusters)
    /\ LET c == clusters[idx]
           r == process_single_cluster(c, files[c], mce_of[c], api_available,
                                       segments_cache, dry_run,
                                       f_args.answers[c], "ok")
       IN  /\ segments_cache' = r.cache
           /\ files' = [files EXCEPT ![c] = r.doc]
           /\ log' = log \o r.log
    /\ idx' = idx + 1
    /\ UNCHANGED <<fvars, pc, sites_ok, allocator_up, clusters, mce_of,
                   orig_files, dry_run, api_available, results, stats, ret,
                   exit_code>>

\* The loop is over: what the pass gave each artifact.
OrderDone ==
    /\ pc = "loop"
    /\ idx > Len(clusters)
    /\ pc' = "main"
    /\ f_calls' = Append(f_calls,
           [order |-> clusters,
            actions |-> [c \in ClusterNames |-> action_of(log, c)],
            files |-> files])
    /\ UNCHANGED <<f_doc, f_args, sites_ok, allocator_up, clusters, mce_of,
                   files, orig_files, dry_run, api_available, segments_cache,
                   idx, results, stats, ret, exit_code, log>>

NextOrder == OrderFetch \/ OrderProcess \/ OrderDone

SpecOrder == InitOrder /\ [][NextOrder]_vars

\* C28: a pass over the same artifacts with the same allocator answers
\* gives each artifact the same action and the same final content whatever
\* the order in which the batch is processed.
C28_OrderIndependence ==
    Len(f_calls) = 2 =>
        \A c \in ClusterNames :
            /\ f_calls[1].actions[c] = f_calls[2].actions[c]
            /\ f_calls[1].files[c] = f_calls[2].files[c]

\* ------------- ClusterNetworkConfigurator.append_network_config_to_yaml
\* (cluster_network_configurator.py, the standalone configurator)
\* Its create_network_config: two rules under the legacy key, without
\* names, to ports 80/TCP and 8080/UDP.
CONFIGURATOR_PORTS == << <<"port", "80", "TCP">>, <<"port", "8080", "UDP">> >>

configurator_create_network_config(mce_segment, cluster_segment) ==
    << MkLine("rule", PyNone, 1, mce_segment, "", "", cluster_segment, "",
              CONFIGURATOR_PORTS),
       MkLine("rule", PyNone, 2, cluster_segment, "", "", mce_segment, "",
              CONFIGURATOR_PORTS) >>

\* net.get('destention', {}).get('segment', ''): the legacy key only.
configurator_dest_seg(net) == net.legacy

\* for net in existing_networks: ... matches_config = True; break
RECURSIVE configurator_matches_config(_, _, _)
configurator_matches_config(nets, mce_segment, cluster_segment) ==
    IF nets = <<>> THEN FALSE
    ELSE LET f == from_seg(Head(nets))
             d == configurator_dest_seg(Head(nets))
         IN  IF \/ (f = mce_segment /\ d = cluster_segment)
                \/ (f = cluster_segment /\ d = mce_segment)
             THEN TRUE
             ELSE configurator_matches_config(Tail(nets), mce_segment,
                                              cluster_segment)

\* The inner try block: TRUE when it returns True before anything is
\* written.  safe_load raising, .get on a document that is a list and
\* net.get on the keys of a Networks mapping all end in "except: pass".
configuration_already_exists(doc, mce_segment, cluster_segment) ==
    LET y == safe_load(doc)
    IN  /\ y.ok
        /\ y.top = "map"
        /\ y.netKind = "list"
        /\ y.rules # <<>>
        /\ configurator_matches_config(y.rules, mce_segment, cluster_segment)

\* existing_content.rstrip(): trailing blank lines go, with the newline
\* that ended the last line.
RECURSIVE rstrip(_)
rstrip(doc) ==
    IF doc = <<>> THEN <<>>
    ELSE IF IsBlank(doc[Len(doc)]) THEN rstrip(SubSeq(doc, 1, Len(doc) - 1))
    ELSE doc

\* existing_content.rstrip() + '\n' + network_yaml: the newline ends the
\* last line, and is a blank line when nothing is left of the content.
updated_content(doc, network_yaml) ==
    (IF rstrip(doc) = <<>> THEN <<Plain("blank")>> ELSE rstrip(doc))
    \o network_yaml

\* The call on an artifact that is found and whose storage works.
append_network_config_to_yaml(doc, mce_segment, cluster_segment) ==
    IF configuration_already_exists(doc, mce_segment, cluster_segment)
    THEN [ret |-> TRUE, doc |-> doc, wrote |-> FALSE]
    ELSE [ret |-> TRUE,
          doc |-> updated_content(doc,
                      <<Plain("net")>> \o
                      configurator_create_network_config(mce_segment,
                                                         cluster_segment)),
          wrote |-> TRUE]

\* Artifacts by line structure and by the key their rule is written under.
AppendAlphabet ==
    {Plain("kv"), Plain("key"), Plain("ind"), Plain("blank"), Plain("net"),
     VlanLine(PyInt(1)),
     RuleLine("10.0.50.0/24", "10.1.100.0/24", ""),
     RuleLine("10.0.50.0/24", "", "10.1.100.0/24")}

AppendDocs == {d \in SeqsUpTo(AppendAlphabet, MaxLen) : StartsAtColumn0(d)}

AppendArgs == [mce_segment : Segments, cluster_segment : Segments]

InitAppend ==
    /\ f_doc \in AppendDocs
    /\ f_args \in AppendArgs
    /\ f_calls = <<>>
    /\ RunIdle(<<>>, DefaultMce, DefaultFiles, TRUE, TRUE, FALSE)

AppendCall ==
    LET r == append_network_config_to_yaml(f_doc, f_args.mce_segment,
                                           f_args.cluster_segment)
    IN  /\ f_doc' = r.doc
        /\ f_calls' = Append(f_calls, [before |-> f_doc, after |-> r.doc,
                                       ret |-> r.ret, wrote |-> r.wrote])
        /\ UNCHANGED <<f_args, rvars>>

FirstAppend == f_calls = <<>> /\ AppendCall

\* The same call again: same cluster, same segments.
SecondAppend == Len(f_calls) = 1 /\ AppendCall

NextAppend == FirstAppend \/ SecondAppend

SpecAppend == InitAppend /\ [][NextAppend]_vars

\* C29: the standalone append writes nothing when the artifact already
\* holds a rule linking the MCE segment and the cluster segment in either
\* direction, and a second call after a successful append writes nothing
\* and leaves the artifact unchanged, whether or not the content parses.
C29_AppendIdempotent ==
    \A k \in Calls :
        /\ PairPersisted(Loaded(k), f_args.mce_segment, f_args.cluster_segment)
              => ~f_calls[k].wrote /\ f_calls[k].after = f_calls[k].before
        /\ (k = 2 /\ f_calls[1].ret /\ f_calls[1].wrote)
              => ~f_calls[2].wrote /\ f_calls[2].after = f_calls[2].before

====
